---- MODULE Spec2Model ----
(***************************************************************************)
(* Verification model of the consensus core of rgb-core:                   *)
(*   - vm/embedded.rs      the embedded validation procedures              *)
(*   - contract/anchor.rs  the anchor / witness model                      *)
(*   - contract/anchor.rs  the order of witness anchors                    *)
(*   - contract/assignments.rs  the typed state                            *)
(* Each component has its own specification (SpecVM, SpecAnchor,           *)
(* SpecWitness, SpecState); the variables of the other components stay at  *)
(* their initial value.                                                    *)
(***************************************************************************)
EXTENDS Integers, Sequences, FiniteSets, TLC

VARIABLES
    transition_type,   \* Embedded.transition_type : Option<TransitionType>
    previous_state,    \* Embedded.previous_state  : Option<AssignmentVec>
    current_state,     \* Embedded.current_state   : Option<AssignmentVec>
    current_meta,      \* Embedded.current_meta, as the values of u64(FIELD_TYPE_ISSUED_SUPPLY)
    stack,             \* Embedded.stack : the pushed outcome codes, oldest first
    vmStatus,          \* "ready", or "panicked" once an unwrap() aborted the process
    lastProc,          \* the procedure of the latest execute call ("none" before the first)
    xanchor,           \* Option<XAnchor<P>>: the anchor at hand, None before it is built
                       \* and after a failed into_* call consumed it
    call,              \* the latest anchor call: [op, recv, args, ret]
    convs,             \* the into_merkle_proof / into_merkle_block calls so far, in order
    wits,              \* the WitnessAnchor values at hand
    wcall,             \* the latest WitnessAnchor call: [op, args, ret]
    tstate,            \* the TypedState at hand
    tcall              \* the latest TypedState call: [op, args, ret]

vmVars == <<transition_type, previous_state, current_state, current_meta,
            stack, vmStatus, lastProc>>

anchorVars == <<xanchor, call, convs>>

witnessVars == <<wits, wcall>>

stateVars == <<tstate, tcall>>

vars == <<vmVars, anchorVars, witnessVars, stateVars>>

-----------------------------------------------------------------------------
(* Bounds of the model *)

\* the largest number of value commitments of a context (previous + current)
MaxTotal == 2
\* the largest number of execute calls on one context
MaxCalls == 2
\* transaction ids are 1..MaxTxid
MaxTxid == 2
\* contract ids (MPC protocol ids) are 1..MaxContract
MaxContract == 2
\* the largest number of into_merkle_proof / into_merkle_block calls of a run
MaxConversions == 3
\* the largest height at which a witness is mined
MaxHeight == 2
\* the largest number of elements of a typed state
MaxItems == 2
\* the concealed amounts and the declared supplies (u64 in the code)
Amounts == {0, 1}

Supplies == {0, 1, 2}

-----------------------------------------------------------------------------
(* Option<T> *)

None == [tag |-> "None"]

Some(x) == [tag |-> "Some", val |-> x]

IsSome(o) == o.tag = "Some"

SeqsUpTo(S, n) == UNION {[1..k -> S] : k \in 0..n}

-----------------------------------------------------------------------------
(* The components that a specification does not exercise *)

Called(op, recv, args, ret) == [op |-> op, recv |-> recv, args |-> args, ret |-> ret]

NoEngine ==
    /\ transition_type = None
    /\ previous_state = None
    /\ current_state = None
    /\ current_meta = <<>>
    /\ stack = <<>>
    /\ vmStatus = "ready"
    /\ lastProc = "none"

NoAnchor ==
    /\ xanchor = None
    /\ call = Called("none", None, <<>>, None)
    /\ convs = <<>>

NoWitness ==
    /\ wits = <<>>
    /\ wcall = [op |-> "none", args |-> <<>>, ret |-> None]

NoTypedState ==
    /\ tstate = None
    /\ tcall = [op |-> "none", args |-> <<>>, ret |-> None]

-----------------------------------------------------------------------------
(* Result<T, E> *)

Ok(x) == [tag |-> "Ok", val |-> x]

Err(e) == [tag |-> "Err", err |-> e]

\* a failed expect(): the process aborts
Abort == [tag |-> "Abort"]

-----------------------------------------------------------------------------
(* Identifiers, MPC proofs and single anchors *)

Txids == 1..MaxTxid

ContractIds == 1..MaxContract

\* bundle ids (MPC messages) are only compared for equality
BundleIds == {1, 2}

Layers == {"Bitcoin", "Liquid"}

\* mpc::MerkleBlock: the leaves of the tree that are known, contract id -> bundle id
\* (the concealed part of the tree is not represented)
MerkleBlocks ==
    {[p |-> "MerkleBlock", known |-> k] :
        k \in UNION {[D -> BundleIds] : D \in SUBSET ContractIds}}

\* mpc::MerkleProof: the path of one leaf, which commits to (contract id, bundle id)
MerkleProofs ==
    {[p |-> "MerkleProof", contract |-> c, bundle |-> b] :
        c \in ContractIds, b \in BundleIds}

\* Anchor<P, D>: txid and mpc_proof (the dbc_proof is carried along untouched)
AnchorsOf(proofs) == [txid : Txids, mpc_proof : proofs]

\* Anchor<MerkleBlock, D>::into_merkle_proof(contract_id)
AnchorIntoMerkleProof(a, contract_id) ==
    IF contract_id \in DOMAIN a.mpc_proof.known
    THEN Ok([txid |-> a.txid,
             mpc_proof |-> [p |-> "MerkleProof", contract |-> contract_id,
                            bundle |-> a.mpc_proof.known[contract_id]]])
    ELSE Err("LeafNotKnown")

\* Anchor<MerkleProof, D>::into_merkle_block(contract_id, bundle_id)
AnchorIntoMerkleBlock(a, contract_id, bundle_id) ==
    IF a.mpc_proof.contract = contract_id /\ a.mpc_proof.bundle = bundle_id
    THEN Ok([txid |-> a.txid,
             mpc_proof |-> [p |-> "MerkleBlock",
                            known |-> [c \in {contract_id} |-> bundle_id]]])
    ELSE Err("InvalidProof")

-----------------------------------------------------------------------------
(* AnchorSet<P> *)

Tapret(a) == [variant |-> "Tapret", tapret |-> a]

Opret(a) == [variant |-> "Opret", opret |-> a]

Dual(t, o) == [variant |-> "Dual", tapret |-> t, opret |-> o]

\* txid without the agreement test of the Dual arm
txid_DualUnchecked(set) ==
    CASE set.variant = "Tapret" -> Some(set.tapret.txid)
      [] set.variant = "Opret"  -> Some(set.opret.txid)
      [] set.variant = "Dual"   -> Some(set.tapret.txid)

\* AnchorSet::txid
txid(set) ==
    CASE set.variant = "Tapret" -> Some(set.tapret.txid)
      [] set.variant = "Opret"  -> Some(set.opret.txid)
      [] set.variant = "Dual" /\ set.tapret.txid = set.opret.txid
                                -> Some(set.tapret.txid)
      [] OTHER                  -> None

\* AnchorSet::txid_unchecked
txid_unchecked(set) ==
    CASE set.variant = "Tapret" -> set.tapret.txid
      [] set.variant = "Opret"  -> set.opret.txid
      [] set.variant = "Dual"   -> set.tapret.txid

\* from_split with the Dual arm keeping only the tapret branch
from_split_DualKeepsTapret(tapret, opret) ==
    CASE IsSome(tapret)                    -> Some(Tapret(tapret.val))
      [] tapret = None /\ IsSome(opret)    -> Some(Opret(opret.val))
      [] tapret = None /\ opret = None     -> None

\* AnchorSet::from_split
from_split(tapret, opret) ==
    CASE IsSome(tapret) /\ IsSome(opret)   -> Some(Dual(tapret.val, opret.val))
      [] IsSome(tapret) /\ opret = None    -> Some(Tapret(tapret.val))
      [] tapret = None /\ IsSome(opret)    -> Some(Opret(opret.val))
      [] tapret = None /\ opret = None     -> None

\* AnchorSet::into_split
into_split(set) ==
    CASE set.variant = "Tapret" -> <<Some(set.tapret), None>>
      [] set.variant = "Opret"  -> <<None, Some(set.opret)>>
      [] set.variant = "Dual"   -> <<Some(set.tapret), Some(set.opret)>>

\* Option<Result<T, E>>::transpose after Option::map: Result<Option<T>, E>
Transpose(o) ==
    IF o = None THEN Ok(None)
    ELSE IF o.val.tag = "Ok" THEN Ok(Some(o.val.val)) ELSE o.val

\* Option::expect
Expect(o) == IF IsSome(o) THEN Ok(o.val) ELSE Abort

\* into_merkle_proof with a failed opret conversion dropped (.ok() for ?)
SetIntoMerkleProof_DropsFailedOpret(set, contract_id) ==
    LET split == into_split(set)
        tapret == Transpose(IF split[1] = None THEN None
                            ELSE Some(AnchorIntoMerkleProof(split[1].val, contract_id)))
    IN  IF tapret.tag = "Err" THEN tapret
        ELSE LET opret == Transpose(IF split[2] = None THEN None
                                    ELSE Some(AnchorIntoMerkleProof(split[2].val, contract_id)))
             IN  Expect(from_split(tapret.val,
                                   IF opret.tag = "Err" THEN None ELSE opret.val))

\* into_merkle_proof re-combining the tapret branch alone
SetIntoMerkleProof_ForgetsOpret(set, contract_id) ==
    LET split == into_split(set)
        tapret == Transpose(IF split[1] = None THEN None
                            ELSE Some(AnchorIntoMerkleProof(split[1].val, contract_id)))
    IN  IF tapret.tag = "Err" THEN tapret
        ELSE LET opret == Transpose(IF split[2] = None THEN None
                                    ELSE Some(AnchorIntoMerkleProof(split[2].val, contract_id)))
             IN  IF opret.tag = "Err" THEN opret
                 ELSE IF tapret.val = None THEN Expect(from_split(None, opret.val))
                 ELSE Expect(from_split(tapret.val, None))

\* AnchorSet<MerkleBlock>::into_merkle_proof
SetIntoMerkleProof(set, contract_id) ==
    LET split == into_split(set)
        tapret == Transpose(IF split[1] = None THEN None
                            ELSE Some(AnchorIntoMerkleProof(split[1].val, contract_id)))
    IN  IF tapret.tag = "Err" THEN tapret
        ELSE LET opret == Transpose(IF split[2] = None THEN None
                                    ELSE Some(AnchorIntoMerkleProof(split[2].val, contract_id)))
             IN  IF opret.tag = "Err" THEN opret
                 ELSE Expect(from_split(tapret.val, opret.val))

\* into_merkle_block with a failed opret conversion dropped (.ok() for ?)
SetIntoMerkleBlock_DropsFailedOpret(set, contract_id, bundle_id) ==
    LET split == into_split(set)
        tapret == Transpose(IF split[1] = None THEN None
                            ELSE Some(AnchorIntoMerkleBlock(split[1].val, contract_id, bundle_id)))
    IN  IF tapret.tag = "Err" THEN tapret
        ELSE LET opret == Transpose(IF split[2] = None THEN None
                                    ELSE Some(AnchorIntoMerkleBlock(split[2].val, contract_id, bundle_id)))
             IN  Expect(from_split(tapret.val,
                                   IF opret.tag = "Err" THEN None ELSE opret.val))

\* into_merkle_block re-combining the tapret branch alone
SetIntoMerkleBlock_ForgetsOpret(set, contract_id, bundle_id) ==
    LET split == into_split(set)
        tapret == Transpose(IF split[1] = None THEN None
                            ELSE Some(AnchorIntoMerkleBlock(split[1].val, contract_id, bundle_id)))
    IN  IF tapret.tag = "Err" THEN tapret
        ELSE LET opret == Transpose(IF split[2] = None THEN None
                                    ELSE Some(AnchorIntoMerkleBlock(split[2].val, contract_id, bundle_id)))
             IN  IF opret.tag = "Err" THEN opret
                 ELSE IF tapret.val = None THEN Expect(from_split(None, opret.val))
                 ELSE Expect(from_split(tapret.val, None))

\* AnchorSet<MerkleProof>::into_merkle_block
SetIntoMerkleBlock(set, contract_id, bundle_id) ==
    LET split == into_split(set)
        tapret == Transpose(IF split[1] = None THEN None
                            ELSE Some(AnchorIntoMerkleBlock(split[1].val, contract_id, bundle_id)))
    IN  IF tapret.tag = "Err" THEN tapret
        ELSE LET opret == Transpose(IF split[2] = None THEN None
                                    ELSE Some(AnchorIntoMerkleBlock(split[2].val, contract_id, bundle_id)))
             IN  IF opret.tag = "Err" THEN opret
                 ELSE Expect(from_split(tapret.val, opret.val))

\* the type parameter P of an AnchorSet<P>
Flavour(set) ==
    IF set.variant = "Opret" THEN set.opret.mpc_proof.p ELSE set.tapret.mpc_proof.p

-----------------------------------------------------------------------------
(* XChain<T> and XAnchor<P> = XChain<AnchorSet<P>> *)

XChain(layer, inner) == [layer |-> layer, inner |-> inner]

\* XChain::map_ref(f), given r = f(&inner)
MapRef(x, r) == XChain(x.layer, r)

\* XChain::maybe_map_ref(f), given r = f(&inner)
MaybeMapRef(x, r) == IF IsSome(r) THEN Some(XChain(x.layer, r.val)) ELSE None

\* XChain::try_map(f), given r = f(inner)
TryMap(x, r) == IF r.tag = "Ok" THEN Ok(XChain(x.layer, r.val)) ELSE r

\* XAnchor::witness_id
witness_id(x) == MaybeMapRef(x, txid(x.inner))

\* XAnchor::witness_id_unchecked
witness_id_unchecked(x) == MapRef(x, txid_unchecked(x.inner))

\* XAnchor<MerkleBlock>::into_merkle_proof
into_merkle_proof(x, contract_id) ==
    TryMap(x, SetIntoMerkleProof(x.inner, contract_id))

\* XAnchor<MerkleProof>::into_merkle_block
into_merkle_block(x, contract_id, bundle_id) ==
    TryMap(x, SetIntoMerkleBlock(x.inner, contract_id, bundle_id))

\* XAnchor<MerkleBlock>::to_merkle_proof: self.clone().into_merkle_proof(..)
to_merkle_proof(x, contract_id) == into_merkle_proof(x, contract_id)

\* XAnchor<MerkleProof>::to_merkle_block: self.clone().into_merkle_block(..)
to_merkle_block(x, contract_id, bundle_id) == into_merkle_block(x, contract_id, bundle_id)

-----------------------------------------------------------------------------
(* The anchor operations as steps *)

IsBlockLevel == IsSome(xanchor) /\ Flavour(xanchor.val.inner) = "MerkleBlock"

IsProofLevel == IsSome(xanchor) /\ Flavour(xanchor.val.inner) = "MerkleProof"

NotAborted == call.ret # Abort

\* The anchor of a run is built once, from its branches with from_split, and
\* tagged with its layer
CallFromSplit ==
    /\ call.op = "none"
    /\ \E proofs \in {MerkleBlocks, MerkleProofs}, layer \in Layers :
       \E tapret, opret \in {None} \cup {Some(a) : a \in AnchorsOf(proofs)} :
          LET ret == from_split(tapret, opret) IN
          /\ call' = Called("from_split", None, <<tapret, opret>>, ret)
          /\ xanchor' = IF IsSome(ret) THEN Some(XChain(layer, ret.val)) ELSE None
    /\ UNCHANGED convs
    /\ UNCHANGED <<vmVars, witnessVars, stateVars>>

CallIntoSplit ==
    /\ NotAborted
    /\ IsSome(xanchor)
    /\ call' = Called("into_split", xanchor, <<>>, into_split(xanchor.val.inner))
    /\ xanchor' = None
    /\ UNCHANGED convs
    /\ UNCHANGED <<vmVars, witnessVars, stateVars>>

CallWitnessId ==
    /\ NotAborted
    /\ IsSome(xanchor)
    /\ call' = Called("witness_id", xanchor, <<>>, witness_id(xanchor.val))
    /\ UNCHANGED <<xanchor, convs, vmVars, witnessVars, stateVars>>

CallWitnessIdUnchecked ==
    /\ NotAborted
    /\ IsSome(xanchor)
    /\ call' = Called("witness_id_unchecked", xanchor, <<>>,
                      witness_id_unchecked(xanchor.val))
    /\ UNCHANGED <<xanchor, convs, vmVars, witnessVars, stateVars>>

CallToMerkleProof ==
    /\ NotAborted
    /\ IsBlockLevel
    /\ \E c \in ContractIds :
          call' = Called("to_merkle_proof", xanchor, <<c>>,
                         to_merkle_proof(xanchor.val, c))
    /\ UNCHANGED <<xanchor, convs, vmVars, witnessVars, stateVars>>

CallIntoMerkleProof ==
    /\ NotAborted
    /\ IsBlockLevel
    /\ Len(convs) < MaxConversions
    /\ \E c \in ContractIds :
          LET ret == into_merkle_proof(xanchor.val, c) IN
          /\ call' = Called("into_merkle_proof", xanchor, <<c>>, ret)
          /\ convs' = Append(convs, call')
          /\ xanchor' = IF ret.tag = "Ok" THEN Some(ret.val) ELSE None
    /\ UNCHANGED <<vmVars, witnessVars, stateVars>>

CallToMerkleBlock ==
    /\ NotAborted
    /\ IsProofLevel
    /\ \E c \in ContractIds, b \in BundleIds :
          call' = Called("to_merkle_block", xanchor, <<c, b>>,
                         to_merkle_block(xanchor.val, c, b))
    /\ UNCHANGED <<xanchor, convs, vmVars, witnessVars, stateVars>>

CallIntoMerkleBlock ==
    /\ NotAborted
    /\ IsProofLevel
    /\ Len(convs) < MaxConversions
    /\ \E c \in ContractIds, b \in BundleIds :
          LET ret == into_merkle_block(xanchor.val, c, b) IN
          /\ call' = Called("into_merkle_block", xanchor, <<c, b>>, ret)
          /\ convs' = Append(convs, call')
          /\ xanchor' = IF ret.tag = "Ok" THEN Some(ret.val) ELSE None
    /\ UNCHANGED <<vmVars, witnessVars, stateVars>>

InitAnchor == NoAnchor /\ NoEngine /\ NoWitness /\ NoTypedState

NextAnchor ==
    \/ CallFromSplit
    \/ CallIntoSplit
    \/ CallWitnessId
    \/ CallWitnessIdUnchecked
    \/ CallToMerkleProof
    \/ CallIntoMerkleProof
    \/ CallToMerkleBlock
    \/ CallIntoMerkleBlock

SpecAnchor == InitAnchor /\ [][NextAnchor]_vars

-----------------------------------------------------------------------------
(* WitnessAnchor and its order.  WitnessOrd and the order of XChain values  *)
(* are defined outside contract/anchor.rs: a witness is either mined at a   *)
(* height or off-chain, an off-chain witness ranks below every mined one,   *)
(* mined ones rank by height, and chain-tagged values rank by layer first.  *)

Heights == 1..MaxHeight

OnChain(height) == [tag |-> "OnChain", height |-> height]

OffChain == [tag |-> "OffChain"]

WitnessOrds == {OffChain} \cup {OnChain(h) : h \in Heights}

WitnessIds == {XChain(layer, t) : layer \in Layers, t \in Txids}

WitnessAnchor(ord, id) == [witness_ord |-> ord, witness_id |-> id]

WitnessAnchors == {WitnessAnchor(o, id) : o \in WitnessOrds, id \in WitnessIds}

\* core::cmp::Ordering
Orderings == {"Less", "Equal", "Greater"}

\* Ordering::reverse
Reverse(o) == CASE o = "Less" -> "Greater" [] o = "Greater" -> "Less" [] OTHER -> "Equal"

\* Ord for integers
IntCmp(a, b) == IF a < b THEN "Less" ELSE IF a > b THEN "Greater" ELSE "Equal"

\* Ord for Layer1: the discriminants Bitcoin = 0, Liquid = 1
Layer1Discriminant(layer) == IF layer = "Bitcoin" THEN 0 ELSE 1

\* Ord for WitnessOrd
WitnessOrdCmp(a, b) ==
    CASE a.tag = "OffChain" /\ b.tag = "OffChain" -> "Equal"
      [] a.tag = "OffChain" /\ b.tag = "OnChain"  -> "Less"
      [] a.tag = "OnChain" /\ b.tag = "OffChain"  -> "Greater"
      [] a.tag = "OnChain" /\ b.tag = "OnChain"   -> IntCmp(a.height, b.height)

\* Ord for WitnessId = XChain<Txid>: the layer, then the txid
WitnessIdCmp(a, b) ==
    IF a.layer # b.layer
    THEN IntCmp(Layer1Discriminant(a.layer), Layer1Discriminant(b.layer))
    ELSE IntCmp(a.inner, b.inner)

\* cmp deciding by witness_id first, with witness_ord as the tie-break
cmp_IdFirst(self, other) ==
    IF self = other THEN "Equal"
    ELSE CASE WitnessIdCmp(self.witness_id, other.witness_id) = "Less"    -> "Less"
           [] WitnessIdCmp(self.witness_id, other.witness_id) = "Greater" -> "Greater"
           [] OTHER -> WitnessOrdCmp(self.witness_ord, other.witness_ord)

\* <WitnessAnchor as Ord>::cmp
cmp(self, other) ==
    IF self = other THEN "Equal"
    ELSE CASE WitnessOrdCmp(self.witness_ord, other.witness_ord) = "Less"    -> "Less"
           [] WitnessOrdCmp(self.witness_ord, other.witness_ord) = "Greater" -> "Greater"
           [] OTHER -> WitnessIdCmp(self.witness_id, other.witness_id)

\* <WitnessAnchor as PartialOrd>::partial_cmp
partial_cmp(self, other) == Some(cmp(self, other))

\* from_mempool tagging the witness as mined at the top height
from_mempool_Mined(id) == WitnessAnchor(OnChain(MaxHeight), id)

\* WitnessAnchor::from_mempool
from_mempool(id) == WitnessAnchor(OffChain, id)

-----------------------------------------------------------------------------
(* The WitnessAnchor operations as steps.  wits holds two witness anchors,  *)
(* each with its origin: given by the chain-data collaborator or built by   *)
(* from_mempool.                                                            *)

Slots == {1, 2}

Held(anchor, origin) == [anchor |-> anchor, origin |-> origin]

WCalled(op, args, ret) == [op |-> op, args |-> args, ret |-> ret]

CallFromMempool ==
    /\ \E i \in Slots, id \in WitnessIds :
          LET ret == from_mempool(id) IN
          /\ wits' = [wits EXCEPT ![i] = Held(ret, "from_mempool")]
          /\ wcall' = WCalled("from_mempool", <<id>>, ret)
    /\ UNCHANGED <<vmVars, anchorVars, stateVars>>

CallCmp ==
    /\ \E i, j \in Slots :
          wcall' = WCalled("cmp", <<wits[i], wits[j]>>,
                           cmp(wits[i].anchor, wits[j].anchor))
    /\ UNCHANGED <<wits, vmVars, anchorVars, stateVars>>

CallPartialCmp ==
    /\ \E i, j \in Slots :
          wcall' = WCalled("partial_cmp", <<wits[i], wits[j]>>,
                           partial_cmp(wits[i].anchor, wits[j].anchor))
    /\ UNCHANGED <<wits, vmVars, anchorVars, stateVars>>

InitWitness ==
    /\ wits \in [Slots -> {Held(a, "given") : a \in WitnessAnchors}]
    /\ wcall = WCalled("none", <<>>, None)
    /\ NoEngine /\ NoAnchor /\ NoTypedState

NextWitness ==
    \/ CallFromMempool
    \/ CallCmp
    \/ CallPartialCmp

SpecWitness == InitWitness /\ [][NextWitness]_vars

-----------------------------------------------------------------------------
(* AssignedState<Pair>: one seal and one state, each of them revealed or    *)
(* confidential.  A confidential seal is the concealment of a revealed one; *)
(* the commitment id of an element is taken over its concealed form.        *)

SealIds == {1, 2}

StateValues == {1, 2}

RevealedSeal(k) == [form |-> "Revealed", id |-> k]

ConfidentialSeal(k) == [form |-> "Confidential", id |-> k]

Seals == {RevealedSeal(k) : k \in SealIds} \cup {ConfidentialSeal(k) : k \in SealIds}

\* seal::Revealed::conceal
ConcealSeal(seal) == ConfidentialSeal(seal.id)

StateForms == {"Revealed", "Confidential"}

Variants == {"Declarative", "Fungible", "Structured", "Attachment"}

\* the state values of a pair: a declarative pair has the void state only
StatesOf(variant) ==
    IF variant = "Declarative"
    THEN {[form |-> f, val |-> "Void"] : f \in StateForms}
    ELSE {[form |-> f, val |-> v] : f \in StateForms, v \in StateValues}

AssignedStates(variant) == [seal : Seals, state : StatesOf(variant)]

\* AssignedState::revealed_seal
revealed_seal(assigned) ==
    IF assigned.seal.form = "Revealed" THEN Some(assigned.seal) ELSE None

\* AssignedState::to_confidential_seal
to_confidential_seal(assigned) ==
    IF assigned.seal.form = "Revealed" THEN ConcealSeal(assigned.seal) ELSE assigned.seal

\* AssignedState::commitment_id
commitment_id(assigned) ==
    [seal |-> to_confidential_seal(assigned), state |-> assigned.state.val]

-----------------------------------------------------------------------------
(* TypedState *)

TypedStateOf(variant, set) == [variant |-> variant, set |-> set]

TypedStates ==
    UNION {{TypedStateOf(v, set) : set \in SeqsUpTo(AssignedStates(v), MaxItems)} :
           v \in Variants}

\* TypedState::is_empty
is_empty(self) == self.set = <<>>

\* TypedState::len
len(self) == Len(self.set)

StateTypes == {"Void", "Fungible", "Structured", "Attachment"}

\* TypedState::state_type
state_type(self) ==
    CASE self.variant = "Declarative" -> "Void"
      [] self.variant = "Fungible"    -> "Fungible"
      [] self.variant = "Structured"  -> "Structured"
      [] self.variant = "Attachment"  -> "Attachment"

is_declarative(self) == self.variant = "Declarative"

is_fungible(self) == self.variant = "Fungible"

is_structured(self) == self.variant = "Structured"

is_attachment(self) == self.variant = "Attachment"

as_declarative(self) == IF self.variant = "Declarative" THEN self.set ELSE <<>>

\* as_fungible taking a structured collection for a fungible one
as_fungible_OrStructured(self) ==
    IF self.variant \in {"Fungible", "Structured"} THEN self.set ELSE <<>>

as_fungible(self) == IF self.variant = "Fungible" THEN self.set ELSE <<>>

as_structured(self) == IF self.variant = "Structured" THEN self.set ELSE <<>>

as_attachment(self) == IF self.variant = "Attachment" THEN self.set ELSE <<>>

as_declarative_mut(self) == IF self.variant = "Declarative" THEN Some(self.set) ELSE None

as_fungible_mut(self) == IF self.variant = "Fungible" THEN Some(self.set) ELSE None

as_structured_mut(self) == IF self.variant = "Structured" THEN Some(self.set) ELSE None

as_attachment_mut(self) == IF self.variant = "Attachment" THEN Some(self.set) ELSE None

\* slice::get with a zero-based index
Get(vec, index) == IF index < Len(vec) THEN Some(vec[index + 1]) ELSE None

\* revealed_seal_at counting the elements from one
revealed_seal_at_OneBased(self, index) ==
    LET item == IF index >= 1 /\ index <= Len(self.set) THEN Some(self.set[index]) ELSE None
    IN  IF item = None THEN Err("UnknownDataError")
        ELSE Ok(revealed_seal(item.val))

\* TypedState::revealed_seal_at
revealed_seal_at(self, index) ==
    LET item == Get(self.set, index)
    IN  IF item = None THEN Err("UnknownDataError")
        ELSE Ok(revealed_seal(item.val))

\* TypedState::to_confidential_seals
to_confidential_seals(self) ==
    [i \in 1..Len(self.set) |-> to_confidential_seal(self.set[i])]

\* merkle_leaves collecting the leaves from the last element to the first
merkle_leaves_Reversed(self) ==
    [i \in 1..Len(self.set) |-> commitment_id(self.set[Len(self.set) + 1 - i])]

\* <TypedState as MerkleLeaves>::merkle_leaves
merkle_leaves(self) ==
    [i \in 1..Len(self.set) |-> commitment_id(self.set[i])]

-----------------------------------------------------------------------------
(* The TypedState operations as steps.  Every operation borrows the typed   *)
(* state and leaves it as it is.                                            *)

TCalled(op, args, ret) == [op |-> op, args |-> args, ret |-> ret]

\* the indices asked for: inside the collection, at its length and past it
Indices == 0..MaxItems

TypedStateUntouched == UNCHANGED <<tstate, vmVars, anchorVars, witnessVars>>

CallLen ==
    /\ tcall' = TCalled("len", <<>>, len(tstate.val))
    /\ TypedStateUntouched

CallIsEmpty ==
    /\ tcall' = TCalled("is_empty", <<>>, is_empty(tstate.val))
    /\ TypedStateUntouched

CallStateType ==
    /\ tcall' = TCalled("state_type", <<>>, state_type(tstate.val))
    /\ TypedStateUntouched

CallIsDeclarative ==
    /\ tcall' = TCalled("is_declarative", <<>>, is_declarative(tstate.val))
    /\ TypedStateUntouched

CallIsFungible ==
    /\ tcall' = TCalled("is_fungible", <<>>, is_fungible(tstate.val))
    /\ TypedStateUntouched

CallIsStructured ==
    /\ tcall' = TCalled("is_structured", <<>>, is_structured(tstate.val))
    /\ TypedStateUntouched

CallIsAttachment ==
    /\ tcall' = TCalled("is_attachment", <<>>, is_attachment(tstate.val))
    /\ TypedStateUntouched

CallAsDeclarative ==
    /\ tcall' = TCalled("as_declarative", <<>>, as_declarative(tstate.val))
    /\ TypedStateUntouched

CallAsFungible ==
    /\ tcall' = TCalled("as_fungible", <<>>, as_fungible(tstate.val))
    /\ TypedStateUntouched

CallAsStructured ==
    /\ tcall' = TCalled("as_structured", <<>>, as_structured(tstate.val))
    /\ TypedStateUntouched

CallAsAttachment ==
    /\ tcall' = TCalled("as_attachment", <<>>, as_attachment(tstate.val))
    /\ TypedStateUntouched

CallAsDeclarativeMut ==
    /\ tcall' = TCalled("as_declarative_mut", <<>>, as_declarative_mut(tstate.val))
    /\ TypedStateUntouched

CallAsFungibleMut ==
    /\ tcall' = TCalled("as_fungible_mut", <<>>, as_fungible_mut(tstate.val))
    /\ TypedStateUntouched

CallAsStructuredMut ==
    /\ tcall' = TCalled("as_structured_mut", <<>>, as_structured_mut(tstate.val))
    /\ TypedStateUntouched

CallAsAttachmentMut ==
    /\ tcall' = TCalled("as_attachment_mut", <<>>, as_attachment_mut(tstate.val))
    /\ TypedStateUntouched

CallToConfidentialSeals ==
    /\ tcall' = TCalled("to_confidential_seals", <<>>, to_confidential_seals(tstate.val))
    /\ TypedStateUntouched

CallMerkleLeaves ==
    /\ tcall' = TCalled("merkle_leaves", <<>>, merkle_leaves(tstate.val))
    /\ TypedStateUntouched

CallRevealedSealAt ==
    /\ \E index \in Indices :
          tcall' = TCalled("revealed_seal_at", <<index>>,
                           revealed_seal_at(tstate.val, index))
    /\ TypedStateUntouched

InitState ==
    /\ tstate \in {Some(t) : t \in TypedStates}
    /\ tcall = TCalled("none", <<>>, None)
    /\ NoEngine /\ NoAnchor /\ NoWitness

NextState ==
    \/ CallLen
    \/ CallIsEmpty
    \/ CallStateType
    \/ CallIsDeclarative
    \/ CallIsFungible
    \/ CallIsStructured
    \/ CallIsAttachment
    \/ CallAsDeclarative
    \/ CallAsFungible
    \/ CallAsStructured
    \/ CallAsAttachment
    \/ CallAsDeclarativeMut
    \/ CallAsFungibleMut
    \/ CallAsStructuredMut
    \/ CallAsAttachmentMut
    \/ CallToConfidentialSeals
    \/ CallMerkleLeaves
    \/ CallRevealedSealAt

SpecState == InitState /\ [][NextState]_vars

-----------------------------------------------------------------------------
(* Confidential amounts: a Pedersen commitment with its bulletproof.  A     *)
(* commitment is represented by its opening (amount, blinding factor), so  *)
(* that two commitments are equal exactly when their openings are and the  *)
(* homomorphic sum adds amounts and blinding factors.  Whether the range   *)
(* proof attached to a commitment verifies is a property of the proof      *)
(* bytes and is kept as a flag.                                            *)

\* secp256k1zkp::key::ONE_KEY, the blinding factor of the supply commitment
ONE_KEY == 1

Commitments == [v : Amounts, b : 0..ONE_KEY]

Confidentials == [commitment : Commitments, proofOk : BOOLEAN]

\* value::Revealed{value, blinding}.commit_conceal().commitment
CommitConceal(value, blinding) == [v |-> value, b |-> blinding]

\* value::Confidential::verify_bullet_proof().is_ok()
VerifyBulletProof(c) == c.proofOk

RECURSIVE SumCommitments(_)
SumCommitments(cs) ==
    IF cs = <<>> THEN [v |-> 0, b |-> 0]
    ELSE LET rest == SumCommitments(Tail(cs))
         IN  [v |-> Head(cs).v + rest.v, b |-> Head(cs).b + rest.b]

\* value::Confidential::verify_commit_sum(positive, negative)
VerifyCommitSum(positive, negative) ==
    SumCommitments(positive) = SumCommitments(negative)

-----------------------------------------------------------------------------
(* AssignmentVec and the transition types *)

TRANSITION_TYPE_ISSUE == "issue"

TransitionTypes == {TRANSITION_TYPE_ISSUE, "transfer"}

\* The assignments of the non-fungible variants carry no value commitment;
\* only the variant is kept.
OtherStates ==
    {[variant |-> "Declarative", items |-> <<>>],
     [variant |-> "CustomData", items |-> <<>>]}

FungibleStates(n) ==
    {[variant |-> "DiscreteFiniteField", items |-> s] :
        s \in SeqsUpTo(Confidentials, n)}

AssignmentVecs(n) == OtherStates \cup FungibleStates(n)

OptionalStates(n) == {None} \cup {Some(s) : s \in AssignmentVecs(n)}

\* AssignmentVec::to_confidential_state_pedersen
ToConfidentialStatePedersen(state) ==
    IF state.variant = "DiscreteFiniteField" THEN state.items ELSE <<>>

\* .into_iter().map(|c| c.commitment).collect()
CommitmentsOf(cs) == [i \in 1..Len(cs) |-> cs[i].commitment]

\* a `for c in &list { if c.verify_bullet_proof().is_err() {..return} }` loop returns
AnyProofFails(cs) == \E i \in 1..Len(cs) : ~VerifyBulletProof(cs[i])

-----------------------------------------------------------------------------
(* Embedded::execute: the outcome of one call *)

Push(code) == [kind |-> "push", code |-> code]

Panic == [kind |-> "panic"]

\* ExecIssue with the supply committed under a zero blinding factor
ExecIssue_ZeroBlinding(curr, meta) ==
    IF curr = None THEN Push(6)
    ELSE LET outputs == ToConfidentialStatePedersen(curr.val) IN
         IF AnyProofFails(outputs) THEN Push(2)
         ELSE IF meta = <<>> THEN Push(7)
         ELSE IF VerifyCommitSum(CommitmentsOf(outputs),
                                 <<CommitConceal(Head(meta), 0)>>)
              THEN Push(0)
              ELSE Push(3)

\* previous_state = None, transition_type = None or Some(TRANSITION_TYPE_ISSUE)
ExecIssue(curr, meta) ==
    IF curr = None THEN Push(6)
    ELSE LET outputs == ToConfidentialStatePedersen(curr.val) IN
         IF AnyProofFails(outputs) THEN Push(2)
         ELSE IF meta = <<>> THEN Push(7)
         ELSE IF VerifyCommitSum(CommitmentsOf(outputs),
                                 <<CommitConceal(Head(meta), ONE_KEY)>>)
              THEN Push(0)
              ELSE Push(3)

\* previous_state = Some(variant)
ExecTransfer(variant, curr) ==
    IF variant.variant = "DiscreteFiniteField"
    THEN IF curr = None THEN Panic   \* current_state.as_ref().unwrap()
         ELSE LET prev == ToConfidentialStatePedersen(variant)
                  cur  == ToConfidentialStatePedersen(curr.val)
              IN  IF AnyProofFails(prev) THEN Push(1)
                  ELSE IF AnyProofFails(cur) THEN Push(2)
                  ELSE IF VerifyCommitSum(CommitmentsOf(cur), CommitmentsOf(prev))
                       THEN Push(0)
                       ELSE Push(3)
    ELSE Push(4)

\* FungibleNoInflation without the transition-type test: every operation that
\* has no previous state is validated as an issuance
FungibleNoInflation_AnyTypeIssues(ttype, prev, curr, meta) ==
    IF prev = None
    THEN ExecIssue(curr, meta)
    ELSE ExecTransfer(prev.val, curr)

\* the EmbeddedProcedure::FungibleNoInflation arm
FungibleNoInflation(ttype, prev, curr, meta) ==
    IF prev = None
    THEN IF ttype = None \/ ttype = Some(TRANSITION_TYPE_ISSUE)
         THEN ExecIssue(curr, meta)
         ELSE Push(5)
    ELSE ExecTransfer(prev.val, curr)

\* the arms of the procedures that are not implemented yet
Placeholder == Push(0)

\* Outcome with the proof-of-burn arm running the conservation check
Outcome_BurnChecksInflation(proc, ttype, prev, curr, meta) ==
    CASE proc = "FungibleNoInflation" -> FungibleNoInflation(ttype, prev, curr, meta)
      [] proc = "ProofOfBurn"         -> FungibleNoInflation(ttype, prev, curr, meta)
      [] OTHER                        -> Placeholder

\* the match over the procedures of Embedded::execute
Outcome(proc, ttype, prev, curr, meta) ==
    CASE proc = "FungibleNoInflation" -> FungibleNoInflation(ttype, prev, curr, meta)
      [] proc = "FungibleIssue"       -> Placeholder
      [] proc = "NftIssue"            -> Placeholder
      [] proc = "ProofOfBurn"         -> Placeholder
      [] proc = "ProofOfReserve"      -> Placeholder
      [] proc = "IdentityTransfer"    -> Placeholder
      [] proc = "RightsSplit"         -> Placeholder

PlaceholderProcedures ==
    {"FungibleIssue", "NftIssue", "ProofOfBurn", "ProofOfReserve",
     "IdentityTransfer", "RightsSplit"}

\* Embedded::with: the context is whatever the caller hands in, the stack is empty
With ==
    /\ transition_type \in {None} \cup {Some(t) : t \in TransitionTypes}
    /\ \E n \in 0..MaxTotal :
          /\ previous_state \in OptionalStates(n)
          /\ current_state \in OptionalStates(MaxTotal - n)
    /\ current_meta \in SeqsUpTo(Supplies, 1)
    /\ stack = <<>>
    /\ vmStatus = "ready"
    /\ lastProc = "none"

\* execute keeping the latest code only
Execute_KeepsLatestCode(proc) ==
    /\ vmStatus = "ready"
    /\ Len(stack) < MaxCalls
    /\ LET out == Outcome(proc, transition_type, previous_state,
                          current_state, current_meta)
       IN  IF out.kind = "push"
           THEN /\ stack' = <<out.code>>
                /\ vmStatus' = vmStatus
           ELSE /\ stack' = stack
                /\ vmStatus' = "panicked"
    /\ lastProc' = proc
    /\ UNCHANGED <<transition_type, previous_state, current_state, current_meta>>
    /\ UNCHANGED <<anchorVars, witnessVars, stateVars>>

\* Embedded::execute(proc)
Execute(proc) ==
    /\ vmStatus = "ready"
    /\ Len(stack) < MaxCalls
    /\ LET out == Outcome(proc, transition_type, previous_state,
                          current_state, current_meta)
       IN  IF out.kind = "push"
           THEN /\ stack' = Append(stack, out.code)
                /\ vmStatus' = vmStatus
           ELSE /\ stack' = stack
                /\ vmStatus' = "panicked"
    /\ lastProc' = proc
    /\ UNCHANGED <<transition_type, previous_state, current_state, current_meta>>
    /\ UNCHANGED <<anchorVars, witnessVars, stateVars>>

ExecuteFungibleNoInflation == Execute("FungibleNoInflation")

ExecuteFungibleIssue == Execute("FungibleIssue")

ExecuteNftIssue == Execute("NftIssue")

ExecuteProofOfBurn == Execute("ProofOfBurn")

ExecuteProofOfReserve == Execute("ProofOfReserve")

ExecuteIdentityTransfer == Execute("IdentityTransfer")

ExecuteRightsSplit == Execute("RightsSplit")

InitVM == With /\ NoAnchor /\ NoWitness /\ NoTypedState

NextVM ==
    \/ ExecuteFungibleNoInflation
    \/ ExecuteFungibleIssue
    \/ ExecuteNftIssue
    \/ ExecuteProofOfBurn
    \/ ExecuteProofOfReserve
    \/ ExecuteIdentityTransfer
    \/ ExecuteRightsSplit

SpecVM == InitVM /\ [][NextVM]_vars

-----------------------------------------------------------------------------
(* What the claims about the validation engine speak of *)

\* the latest call was execute(FungibleNoInflation)
RanNoInflation == lastProc = "FungibleNoInflation"

\* the latest call returned, so that its code is on top of the stack
Returned == vmStatus = "ready" /\ stack # <<>>

TopCode == stack[Len(stack)]

\* the value commitments of an optional state (none if absent or not fungible)
ItemsOf(o) ==
    IF IsSome(o) /\ o.val.variant = "DiscreteFiniteField" THEN o.val.items ELSE <<>>

AllProofsValid(cs) == \A i \in 1..Len(cs) : cs[i].proofOk

SumV(cs) == SumCommitments(CommitmentsOf(cs)).v

SumB(cs) == SumCommitments(CommitmentsOf(cs)).b

SameSum(cs, ds) == SumV(cs) = SumV(ds) /\ SumB(cs) = SumB(ds)

TransferCase ==
    IsSome(previous_state) /\ previous_state.val.variant = "DiscreteFiniteField"

GenesisCase ==
    /\ previous_state = None
    /\ transition_type \in {None, Some(TRANSITION_TYPE_ISSUE)}

\* the sum of the outputs is the commitment to the declared supply under the
\* all-ones blinding factor
MatchesSupply(cs, meta) == SumV(cs) = meta[1] /\ SumB(cs) = 1

(* C1 -- transfer case: with valid range proofs on every previous and every   *)
(* current commitment the code is 0 iff the current sum equals the previous   *)
(* sum, and 3 otherwise; an invalid range proof on a previous commitment      *)
(* gives 1.  Stated for every context with a fungible previous state.         *)
C1_TransferOutcome ==
    (RanNoInflation /\ TransferCase) =>
        /\ Returned
        /\ (AllProofsValid(ItemsOf(previous_state))
              /\ AllProofsValid(ItemsOf(current_state)))
           => TopCode = IF SameSum(ItemsOf(current_state), ItemsOf(previous_state))
                        THEN 0 ELSE 3
        /\ ~AllProofsValid(ItemsOf(previous_state)) => TopCode = 1

\* C1 where the current state is present: the part of C1 the code satisfies
C1_TransferOutcomeCurrentPresent ==
    (RanNoInflation /\ TransferCase /\ IsSome(current_state)) =>
        /\ Returned
        /\ (AllProofsValid(ItemsOf(previous_state))
              /\ AllProofsValid(ItemsOf(current_state)))
           => TopCode = IF SameSum(ItemsOf(current_state), ItemsOf(previous_state))
                        THEN 0 ELSE 3
        /\ ~AllProofsValid(ItemsOf(previous_state)) => TopCode = 1

(* C2 -- genesis/issuance case with a declared supply and a current state:    *)
(* 2 if an output has an invalid range proof (whatever the sums), else 0 if   *)
(* the outputs sum to the supply commitment with blinding factor one, else 3. *)
C2_IssuanceOutcome ==
    (RanNoInflation /\ GenesisCase /\ IsSome(current_state) /\ current_meta # <<>>) =>
        /\ Returned
        /\ TopCode = IF ~AllProofsValid(ItemsOf(current_state)) THEN 2
                     ELSE IF MatchesSupply(ItemsOf(current_state), current_meta)
                          THEN 0 ELSE 3

\* an issuance that passed with two outputs
C2_Witness ==
    /\ RanNoInflation /\ GenesisCase /\ Returned
    /\ Len(ItemsOf(current_state)) = 2
    /\ current_meta # <<>> /\ current_meta[1] > 0
    /\ TopCode = 0

(* C3 as stated -- a context with a previous state whose transition type is   *)
(* the issuance type gets code 5.                                             *)
C3_IssueTagOnSpendRejected ==
    (RanNoInflation /\ Returned /\ IsSome(previous_state)
        /\ transition_type = Some(TRANSITION_TYPE_ISSUE)) => TopCode = 5

(* C3 amended -- code 5 is the outcome exactly when there is no previous      *)
(* state and the transition type is present and is not the issuance type;     *)
(* with a previous state the code is never 5.                                 *)
C3_MissingPreviousStateRejected ==
    RanNoInflation =>
        /\ (previous_state = None /\ IsSome(transition_type)
              /\ transition_type.val # TRANSITION_TYPE_ISSUE)
           => (Returned /\ TopCode = 5)
        /\ (Returned /\ TopCode = 5)
           => (previous_state = None /\ IsSome(transition_type)
                 /\ transition_type.val # TRANSITION_TYPE_ISSUE)

\* a transfer-typed transition without previous state, rejected with 5 although
\* its outputs would pass the issuance checks
C3_Witness ==
    /\ RanNoInflation /\ Returned /\ TopCode = 5
    /\ previous_state = None
    /\ transition_type = Some("transfer")
    /\ current_meta # <<>>
    /\ Len(ItemsOf(current_state)) > 0
    /\ AllProofsValid(ItemsOf(current_state))
    /\ MatchesSupply(ItemsOf(current_state), current_meta)

\* the code C4 names for a context: the first failing check of the sequence
C4_Expected ==
    IF GenesisCase
    THEN IF current_state = None THEN 6
         ELSE IF ~AllProofsValid(ItemsOf(current_state)) THEN 2
         ELSE IF current_meta = <<>> THEN 7
         ELSE IF ~MatchesSupply(ItemsOf(current_state), current_meta) THEN 3
         ELSE 0
    ELSE IF ~TransferCase THEN 4
         ELSE IF ~AllProofsValid(ItemsOf(previous_state)) THEN 1
         ELSE IF ~AllProofsValid(ItemsOf(current_state)) THEN 2
         ELSE IF ~SameSum(ItemsOf(current_state), ItemsOf(previous_state)) THEN 3
         ELSE 0

(* C4 -- the outcome is the first failing check of the fixed sequence of the  *)
(* genesis/issuance case or of the transfer case.                             *)
C4_FirstFailingCheck ==
    (RanNoInflation /\ (GenesisCase \/ IsSome(previous_state))) =>
        (Returned /\ TopCode = C4_Expected)

\* C4 where a transfer has a current state: the part of C4 the code satisfies
C4_FirstFailingCheckCurrentPresent ==
    (RanNoInflation /\ (GenesisCase \/ IsSome(previous_state))
        /\ (TransferCase => IsSome(current_state))) =>
        (Returned /\ TopCode = C4_Expected)

(* C5 -- no operation aborts the process: every execute call pushes a code    *)
(* and no anchor conversion hits its expect().                                *)
C5_NoAbort == vmStatus # "panicked" /\ call.ret # Abort

\* C5 (b) alone: the anchor conversions never abort
C5_AnchorConversionsNeverAbort == call.ret # Abort

(* C6 -- every procedure other than FungibleNoInflation pushes 0, whatever    *)
(* the context.                                                               *)
C6_PlaceholdersPass ==
    lastProc \in PlaceholderProcedures => (Returned /\ TopCode = 0)

\* proof-of-burn passed on a context that the conservation check rejects
C6_Witness ==
    /\ lastProc = "ProofOfBurn" /\ Returned /\ TopCode = 0
    /\ Len(stack) = 2 /\ stack[1] = 3
    /\ TransferCase

-----------------------------------------------------------------------------
(* What the claims about anchors speak of *)

\* the branches an anchor set holds
BranchesOf(set) ==
    (IF set.variant \in {"Tapret", "Dual"} THEN {set.tapret} ELSE {})
        \cup (IF set.variant \in {"Opret", "Dual"} THEN {set.opret} ELSE {})

\* the leaf of the contract is among the known leaves of the branch's block
LeafKnown(a, contract_id) == contract_id \in DOMAIN a.mpc_proof.known

\* the branch's proof is the path of the leaf (contract_id, bundle_id)
CommitsTo(a, contract_id, bundle_id) ==
    a.mpc_proof.contract = contract_id /\ a.mpc_proof.bundle = bundle_id

DualDisagrees(set) == set.variant = "Dual" /\ set.tapret.txid # set.opret.txid

(* C7 -- from_split returns None iff both branches are absent, otherwise      *)
(* exactly Tapret(t), Opret(o) or Dual{t, o}; and from_split of the result of *)
(* into_split gives the anchor set back.                                      *)
C7_FromSplit ==
    /\ call.op = "from_split" =>
          LET t == call.args[1]
              o == call.args[2]
          IN  /\ call.ret = None <=> (t = None /\ o = None)
              /\ (IsSome(t) /\ o = None) =>
                    call.ret = Some([variant |-> "Tapret", tapret |-> t.val])
              /\ (t = None /\ IsSome(o)) =>
                    call.ret = Some([variant |-> "Opret", opret |-> o.val])
              /\ (IsSome(t) /\ IsSome(o)) =>
                    call.ret = Some([variant |-> "Dual", tapret |-> t.val,
                                     opret |-> o.val])
    /\ call.op = "into_split" =>
          from_split(call.ret[1], call.ret[2]) = Some(call.recv.val.inner)

\* a Dual anchor, built by from_split, was split again
C7_Witness ==
    /\ call.op = "into_split"
    /\ call.recv.val.inner.variant = "Dual"
    /\ IsSome(call.ret[1]) /\ IsSome(call.ret[2])

(* C8 -- witness_id() is None iff the anchor is Dual with different txids,    *)
(* else Some(id) with the anchor's layer; witness_id_unchecked() always       *)
(* returns an id, the tapret txid for a Dual anchor, and agrees with          *)
(* witness_id() whenever that is defined.                                     *)
C8_WitnessIds ==
    /\ call.op = "witness_id" =>
          LET x == call.recv.val IN
          /\ call.ret = None <=> DualDisagrees(x.inner)
          /\ IsSome(call.ret) =>
                /\ call.ret.val.layer = x.layer
                /\ \E a \in BranchesOf(x.inner) : call.ret.val.inner = a.txid
                /\ witness_id_unchecked(x) = call.ret.val
    /\ call.op = "witness_id_unchecked" =>
          LET x == call.recv.val IN
          /\ call.ret.layer = x.layer
          /\ call.ret.inner \in Txids
          /\ x.inner.variant = "Dual" => call.ret.inner = x.inner.tapret.txid
          /\ IsSome(witness_id(x)) => witness_id(x).val = call.ret

\* witness_id() of a Liquid Dual anchor whose branches disagree
C8_Witness ==
    /\ call.op = "witness_id"
    /\ call.recv.val.layer = "Liquid"
    /\ DualDisagrees(call.recv.val.inner)
    /\ call.ret = None

(* C9 -- into_merkle_proof(contract_id) succeeds when the leaf is known in    *)
(* every branch and fails with LeafNotKnown when it is unknown in a branch;   *)
(* a result has the variant of the anchor it was made from.                   *)
C9_IntoMerkleProof ==
    call.op = "into_merkle_proof" =>
        LET set == call.recv.val.inner
            c   == call.args[1]
        IN  /\ (\A a \in BranchesOf(set) : LeafKnown(a, c)) => call.ret.tag = "Ok"
            /\ (\E a \in BranchesOf(set) : ~LeafKnown(a, c)) =>
                  (call.ret = Err("LeafNotKnown") /\ xanchor = None)
            /\ call.ret.tag = "Ok" =>
                  /\ call.ret.val.inner.variant = set.variant
                  /\ xanchor = Some(call.ret.val)

\* a Dual anchor whose tapret block knows the leaf and whose opret block does not
C9_Witness ==
    /\ call.op = "into_merkle_proof"
    /\ call.recv.val.inner.variant = "Dual"
    /\ LeafKnown(call.recv.val.inner.tapret, call.args[1])
    /\ ~LeafKnown(call.recv.val.inner.opret, call.args[1])
    /\ call.ret = Err("LeafNotKnown")

(* C10 -- into_merkle_block(contract_id, bundle_id) fails with InvalidProof   *)
(* when the pair is not the leaf of the proof of some present branch, and     *)
(* then no block-level anchor comes out.                                      *)
C10_IntoMerkleBlock ==
    call.op = "into_merkle_block" =>
        LET set == call.recv.val.inner
            c   == call.args[1]
            b   == call.args[2]
        IN  (\E a \in BranchesOf(set) : ~CommitsTo(a, c, b)) =>
               (call.ret = Err("InvalidProof") /\ xanchor = None)

\* a Dual anchor whose tapret proof is of the supplied leaf and whose opret
\* proof is of another bundle
C10_Witness ==
    /\ call.op = "into_merkle_block"
    /\ call.recv.val.inner.variant = "Dual"
    /\ CommitsTo(call.recv.val.inner.tapret, call.args[1], call.args[2])
    /\ ~CommitsTo(call.recv.val.inner.opret, call.args[1], call.args[2])
    /\ call.ret = Err("InvalidProof")

\* the committed set of every branch of the anchor set contains the leaf
ContainsLeaf(set, contract_id, bundle_id) ==
    \A a \in BranchesOf(set) :
        LeafKnown(a, contract_id) /\ a.mpc_proof.known[contract_id] = bundle_id

\* the txid of each branch, by position
BranchTxids(set) ==
    <<IF set.variant \in {"Tapret", "Dual"} THEN Some(set.tapret.txid) ELSE None,
      IF set.variant \in {"Opret", "Dual"} THEN Some(set.opret.txid) ELSE None>>

(* C11 -- round trip: when a block-level anchor A contains the leaf           *)
(* (contract_id, bundle_id), p = A.into_merkle_proof(contract_id) succeeds,   *)
(* B = p.into_merkle_block(contract_id, bundle_id) succeeds, and              *)
(* B.into_merkle_proof(contract_id) gives p again.                            *)
C11_RoundTrip ==
    \A i \in 1..Len(convs) : \A b \in BundleIds :
        LET first == convs[i]
            c     == first.args[1]
        IN  (/\ first.op = "into_merkle_proof"
             /\ ContainsLeaf(first.recv.val.inner, c, b)) =>
               /\ first.ret.tag = "Ok"
               /\ (/\ i + 1 <= Len(convs)
                   /\ convs[i + 1].op = "into_merkle_block"
                   /\ convs[i + 1].args = <<c, b>>) =>
                      /\ convs[i + 1].recv = Some(first.ret.val)
                      /\ convs[i + 1].ret.tag = "Ok"
                      /\ (/\ i + 2 <= Len(convs)
                          /\ convs[i + 2].op = "into_merkle_proof"
                          /\ convs[i + 2].args = <<c>>) =>
                             /\ convs[i + 2].recv = Some(convs[i + 1].ret.val)
                             /\ convs[i + 2].ret = first.ret

\* a Liquid Dual anchor whose blocks know two leaves went through compaction,
\* expansion and compaction for one of them
C11_Witness ==
    /\ Len(convs) = 3
    /\ convs[1].op = "into_merkle_proof" /\ convs[1].ret.tag = "Ok"
    /\ convs[2].op = "into_merkle_block" /\ convs[2].ret.tag = "Ok"
    /\ convs[3].op = "into_merkle_proof" /\ convs[3].ret = convs[1].ret
    /\ convs[1].recv.val.layer = "Liquid"
    /\ convs[1].recv.val.inner.variant = "Dual"
    /\ Cardinality(DOMAIN convs[1].recv.val.inner.tapret.mpc_proof.known) = 2
    /\ convs[2].ret.val # convs[1].recv.val

(* C18 -- a successful into_merkle_proof / into_merkle_block (and the to_      *)
(* forms) gives an anchor with the layer, the variant and the branch txids of *)
(* its input, hence with the same witness_id() and witness_id_unchecked();    *)
(* the to_ forms leave the receiver as it was.                                *)
C18_ShapePreserved ==
    /\ (/\ call.op \in {"into_merkle_proof", "to_merkle_proof",
                        "into_merkle_block", "to_merkle_block"}
        /\ call.ret.tag = "Ok") =>
           LET before == call.recv.val
               after  == call.ret.val
           IN  /\ after.layer = before.layer
               /\ after.inner.variant = before.inner.variant
               /\ BranchTxids(after.inner) = BranchTxids(before.inner)
               /\ witness_id(after) = witness_id(before)
               /\ witness_id_unchecked(after) = witness_id_unchecked(before)
    /\ call.op \in {"to_merkle_proof", "to_merkle_block"} => xanchor = call.recv

\* a Liquid Dual anchor whose branches are of different transactions was
\* compacted in place
C18_Witness ==
    /\ call.op = "into_merkle_proof" /\ call.ret.tag = "Ok"
    /\ call.recv.val.layer = "Liquid"
    /\ DualDisagrees(call.recv.val.inner)
    /\ xanchor = Some(call.ret.val)
    /\ xanchor # call.recv

-----------------------------------------------------------------------------
(* What the claims about witness anchors speak of *)

Compared == wcall.op = "cmp"

IsOffChain(held) == held.origin = "from_mempool" \/ held.anchor.witness_ord = OffChain

IsOnChain(held) == held.anchor.witness_ord.tag = "OnChain"

(* C12 -- cmp is a strict total order on witness anchors: exactly one of      *)
(* a < b, a = b, a > b holds; cmp(a, b) is Equal iff a and b have the same    *)
(* witness_ord and witness_id; cmp(a, b) is the reverse of cmp(b, a); it is   *)
(* transitive; and witness_ord decides, witness_id only breaking its ties.    *)
C12_StrictTotalOrder ==
    Compared =>
        LET a == wcall.args[1].anchor
            b == wcall.args[2].anchor
            same == a.witness_ord = b.witness_ord /\ a.witness_id = b.witness_id
        IN  /\ wcall.ret \in Orderings
            /\ Cardinality({r \in {"Less", "Greater"} : wcall.ret = r}
                           \cup (IF same THEN {"Same"} ELSE {})) = 1
            /\ wcall.ret = "Equal" <=> same
            /\ wcall.ret = Reverse(cmp(b, a))
            /\ \A c \in WitnessAnchors :
                  /\ (wcall.ret = "Less" /\ cmp(b, c) = "Less") => cmp(a, c) = "Less"
                  /\ (wcall.ret = "Greater" /\ cmp(b, c) = "Greater") =>
                        cmp(a, c) = "Greater"
            /\ WitnessOrdCmp(a.witness_ord, b.witness_ord) # "Equal" =>
                  wcall.ret = WitnessOrdCmp(a.witness_ord, b.witness_ord)
            /\ WitnessOrdCmp(a.witness_ord, b.witness_ord) = "Equal" =>
                  wcall.ret = WitnessIdCmp(a.witness_id, b.witness_id)

\* a witness mined lower with the larger id compared Less than one mined
\* higher with the smaller id
C12_Witness ==
    /\ Compared /\ wcall.ret = "Less"
    /\ IsOnChain(wcall.args[1]) /\ IsOnChain(wcall.args[2])
    /\ WitnessIdCmp(wcall.args[1].anchor.witness_id,
                    wcall.args[2].anchor.witness_id) = "Greater"

(* C13 -- an off-chain witness anchor, one built by from_mempool included,    *)
(* never compares greater than a witness anchor mined at some height: it      *)
(* ranks below it whatever the two witness ids are.                           *)
C13_OffChainBelowOnChain ==
    Compared =>
        /\ (IsOffChain(wcall.args[1]) /\ IsOnChain(wcall.args[2])) => wcall.ret = "Less"
        /\ (IsOnChain(wcall.args[1]) /\ IsOffChain(wcall.args[2])) => wcall.ret = "Greater"

\* a witness built by from_mempool with the largest id compared Less than a
\* witness mined at height 1 with the smallest id
C13_Witness ==
    /\ Compared /\ wcall.ret = "Less"
    /\ wcall.args[1].origin = "from_mempool"
    /\ wcall.args[1].anchor.witness_id = XChain("Liquid", MaxTxid)
    /\ wcall.args[2].anchor = WitnessAnchor(OnChain(1), XChain("Bitcoin", 1))

-----------------------------------------------------------------------------
(* What the claims about the typed state speak of *)

\* the category an accessor is for
CategoryOf ==
    [is_declarative |-> "Declarative", is_fungible |-> "Fungible",
     is_structured |-> "Structured", is_attachment |-> "Attachment",
     as_declarative |-> "Declarative", as_fungible |-> "Fungible",
     as_structured |-> "Structured", as_attachment |-> "Attachment",
     as_declarative_mut |-> "Declarative", as_fungible_mut |-> "Fungible",
     as_structured_mut |-> "Structured", as_attachment_mut |-> "Attachment"]

IsOps == {"is_declarative", "is_fungible", "is_structured", "is_attachment"}

AsOps == {"as_declarative", "as_fungible", "as_structured", "as_attachment"}

AsMutOps == {"as_declarative_mut", "as_fungible_mut", "as_structured_mut",
             "as_attachment_mut"}

\* the state type that names a variant
TypeOfVariant ==
    [Declarative |-> "Void", Fungible |-> "Fungible",
     Structured |-> "Structured", Attachment |-> "Attachment"]

\* the typed state with the elements i and j exchanged
Swapped(self, i, j) ==
    TypedStateOf(self.variant,
                 [k \in 1..Len(self.set) |->
                     IF k = i THEN self.set[j] ELSE IF k = j THEN self.set[i]
                     ELSE self.set[k]])

\* the typed state with the seal of element i stored in confidential form
SealConcealedAt(self, i) ==
    TypedStateOf(self.variant,
                 [self.set EXCEPT ![i].seal = ConcealSeal(self.set[i].seal)])

\* a typed state of the given variant with the same seals and the given state
WithStates(self, variant, state) ==
    TypedStateOf(variant,
                 [k \in 1..Len(self.set) |-> [seal |-> self.set[k].seal, state |-> state]])

(* C14 -- category isolation: on a typed state of variant V, as_C returns the *)
(* stored collection when C = V and an empty one otherwise; as_C_mut returns  *)
(* Some(the stored collection) iff C = V, else None; state_type reports V;    *)
(* exactly one of the four is_ tests is true.  Every accessor returns one of *)
(* these values on every typed state: none fails.                             *)
C14_CategoryIsolation ==
    LET self == tstate.val
        V    == self.variant
    IN  /\ tcall.op \in AsOps =>
              tcall.ret = IF CategoryOf[tcall.op] = V THEN self.set ELSE <<>>
        /\ tcall.op \in AsMutOps =>
              /\ IsSome(tcall.ret) <=> CategoryOf[tcall.op] = V
              /\ tcall.ret = IF CategoryOf[tcall.op] = V THEN Some(self.set) ELSE None
        /\ tcall.op = "state_type" => tcall.ret = TypeOfVariant[V]
        /\ tcall.op \in IsOps =>
              /\ tcall.ret <=> CategoryOf[tcall.op] = V
              /\ Cardinality({t \in {<<1, is_declarative(self)>>, <<2, is_fungible(self)>>,
                                      <<3, is_structured(self)>>, <<4, is_attachment(self)>>} :
                                  t[2]}) = 1

\* as_fungible on a structured state of two elements gave the empty slice
C14_Witness ==
    /\ tcall.op = "as_fungible"
    /\ tstate.val.variant = "Structured"
    /\ Len(tstate.val.set) = 2
    /\ tcall.ret = <<>>

(* C15 -- revealed_seal_at(index) fails with UnknownDataError iff             *)
(* index >= len(); in range it returns Ok(None) for a confidential seal and   *)
(* Ok(Some(seal)) for a revealed one, whatever the state of the element is    *)
(* and whichever of the four variants holds it.                               *)
C15_RevealedSealAt ==
    tcall.op = "revealed_seal_at" =>
        LET self  == tstate.val
            index == tcall.args[1]
        IN  /\ tcall.ret.tag = "Err" <=> index >= len(self)
            /\ tcall.ret.tag = "Err" => tcall.ret = Err("UnknownDataError")
            /\ index < len(self) =>
                  LET item == self.set[index + 1] IN
                  /\ item.seal.form = "Confidential" => tcall.ret = Ok(None)
                  /\ item.seal.form = "Revealed" => tcall.ret = Ok(Some(item.seal))
            /\ \A v \in Variants : \A state \in StatesOf(v) :
                  revealed_seal_at(WithStates(self, v, state), index) = tcall.ret

\* the second element of an attachment state has a revealed seal and a
\* confidential state, and its seal was returned
C15_Witness ==
    /\ tcall.op = "revealed_seal_at" /\ tcall.args = <<1>>
    /\ tstate.val.variant = "Attachment"
    /\ Len(tstate.val.set) = 2
    /\ tstate.val.set[2].seal.form = "Revealed"
    /\ tstate.val.set[2].state.form = "Confidential"
    /\ tstate.val.set[1].seal # tstate.val.set[2].seal
    /\ tcall.ret = Ok(Some(tstate.val.set[2].seal))

(* C16 -- merkle_leaves and to_confidential_seals return len() items, the     *)
(* i-th being the commitment id, respectively the confidential seal, of the   *)
(* i-th element; exchanging two elements with different commitment ids gives  *)
(* another leaf sequence; and to_confidential_seals gives the same result     *)
(* whether a seal is stored revealed or confidential.                         *)
C16_ElementWise ==
    LET self == tstate.val IN
    /\ tcall.op = "merkle_leaves" =>
          /\ Len(tcall.ret) = len(self)
          /\ \A i \in 1..len(self) : tcall.ret[i] = commitment_id(self.set[i])
          /\ \A i, j \in 1..len(self) :
                commitment_id(self.set[i]) # commitment_id(self.set[j]) =>
                   merkle_leaves(Swapped(self, i, j)) # tcall.ret
    /\ tcall.op = "to_confidential_seals" =>
          /\ Len(tcall.ret) = len(self)
          /\ \A i \in 1..len(self) :
                /\ tcall.ret[i] = ConfidentialSeal(self.set[i].seal.id)
                /\ to_confidential_seals(SealConcealedAt(self, i)) = tcall.ret

\* the leaves of a fungible state of two elements with different commitment ids
C16_Witness ==
    /\ tcall.op = "merkle_leaves"
    /\ tstate.val.variant = "Fungible"
    /\ Len(tstate.val.set) = 2
    /\ tstate.val.set[1].seal.form = "Revealed"
    /\ tstate.val.set[2].seal.form = "Confidential"
    /\ tcall.ret[1] # tcall.ret[2]

-----------------------------------------------------------------------------
(* What the claim about sequences of execute calls speaks of *)

\* the context fields of the engine
contextVars == <<transition_type, previous_state, current_state, current_meta>>

OutcomeCodes == 0..7

(* C17 -- every completed execute call appends exactly one outcome code in    *)
(* 0..7 to the stack and leaves the earlier entries and the context fields    *)
(* unchanged, so that n calls leave n codes in call order; and the same       *)
(* procedure executed again on the same context gives the same code.          *)
C17_OneCodePerCall ==
    [][ vmStatus' = "ready" =>
          /\ \E code \in OutcomeCodes : stack' = Append(stack, code)
          /\ contextVars' = contextVars
          /\ (lastProc' = lastProc /\ stack # <<>>) =>
                stack'[Len(stack')] = stack[Len(stack)] ]_vmVars

\* the conservation check ran twice on a context it rejects with code 3
C17_Witness ==
    /\ lastProc = "FungibleNoInflation"
    /\ vmStatus = "ready"
    /\ stack = <<3, 3>>

====
